---- MODULE Spec2Model ----
(***************************************************************************)
(* The HSL colour value of easy_color (src/src/hsl.rs): construction from  *)
(* a tuple or a string, Display, the three clamping setters and the three  *)
(* cosmetic mutators darken, lighten and rotate.                           *)
(*                                                                         *)
(* Machine numbers keep their width.  A u32 is a pair <<hi, lo>> of 16-bit *)
(* limbs (TLC's integers are 32-bit signed, so 2^32 - 1 does not fit one   *)
(* integer); an i32 is an integer in -2^31 .. 2^31 - 1 and every sum that  *)
(* may leave that range is computed without leaving it; an f32 is a record *)
(* with a 24-bit significand m and an exponent e, of value m * 2^e.        *)
(* A string is a sequence of one-character strings.                        *)
(***************************************************************************)
EXTENDS Integers, Sequences, FiniteSets, TLC

(***************************************************************************)
(* u32                                                                     *)
(***************************************************************************)
Limb == 2^16

Pow2(k) == 2^k

RECURSIVE BitLen(_)
BitLen(n) == IF n <= 0 THEN 0 ELSE 1 + BitLen(n \div 2)

\* The u32 of a natural number below 2^31.
U32(n) == <<n \div Limb, n % Limb>>

U32_MAX == <<Limb - 1, Limb - 1>>

U32Le(a, b) == a[1] < b[1] \/ (a[1] = b[1] /\ a[2] <= b[2])

\* Ord::min and Ord::max on u32.
U32Min(a, b) == IF U32Le(a, b) THEN a ELSE b

U32Max(a, b) == IF U32Le(a, b) THEN b ELSE a

\* RangeInclusive::contains for the range 0..=hi of u32.
Contains(hi, v) == U32Le(U32(0), v) /\ U32Le(v, U32(hi))

\* a + b leaves u32 (the overflow check of a debug build fails).
AddOverflows(a, b) == a[1] + b[1] + ((a[2] + b[2]) \div Limb) >= Limb

\* a + b modulo 2^32 (a build without overflow checks).
WrappingAdd(a, b) ==
    LET lo == a[2] + b[2]
        hi == a[1] + b[1] + (lo \div Limb)
    IN  <<hi % Limb, lo % Limb>>

\* a - b leaves u32.
SubOverflows(a, b) == ~U32Le(b, a)

\* a - b modulo 2^32.
WrappingSub(a, b) ==
    LET lo == a[2] - b[2]
        hi == a[1] - b[1] - (IF lo < 0 THEN 1 ELSE 0)
    IN  <<(hi + Limb) % Limb, (lo + Limb) % Limb>>

(***************************************************************************)
(* i32                                                                     *)
(***************************************************************************)
I32_MAX == 2147483647

I32_MIN == -I32_MAX - 1

\* `x as i32` of a u32: the same 32 bits, read as two's complement.
U32AsI32(v) ==
    IF v[1] < Limb \div 2 THEN v[1] * Limb + v[2]
    ELSE (v[1] - Limb) * Limb + v[2]

\* `x as u32` of an i32.
I32AsU32(n) ==
    IF n >= 0 THEN U32(n)
    ELSE <<Limb + (n \div Limb), n % Limb>>

\* a + b leaves i32.
I32AddOverflows(a, b) ==
    \/ a > 0 /\ b > I32_MAX - a
    \/ a < 0 /\ b < I32_MIN - a

\* a + b modulo 2^32, as an i32; no intermediate value leaves i32.
I32WrappingAdd(a, b) ==
    IF a > 0 /\ b > I32_MAX - a THEN (a + I32_MIN) + (b + I32_MIN)
    ELSE IF a < 0 /\ b < I32_MIN - a THEN (a - I32_MIN) + (b - I32_MIN)
    ELSE a + b

\* Rust's % on i32: the remainder has the sign of the dividend.
I32Rem(a, n) ==
    LET r == a % n
    IN  IF a < 0 /\ r # 0 THEN r - n ELSE r

(***************************************************************************)
(* f32: IEEE 754 binary32, round to nearest, ties to even.  A finite non-  *)
(* zero value is m * 2^e with 2^23 <= m < 2^24 (a normal number; the       *)
(* ratios of the model are normal, zero, infinite or NaN, and a product    *)
(* with an integer >= 1 of a normal number is not subnormal).              *)
(***************************************************************************)
F32Zero(neg) == [k |-> "zero", neg |-> neg, m |-> 0, e |-> 0]

F32Inf(neg) == [k |-> "inf", neg |-> neg, m |-> 0, e |-> 0]

F32NaN == [k |-> "nan", neg |-> FALSE, m |-> 0, e |-> 0]

\* The finite value m * 2^e, m normalised; beyond f32::MAX it is infinite.
F32Fin(neg, m, e) ==
    IF e > 104 THEN F32Inf(neg)
    ELSE [k |-> "fin", neg |-> neg, m |-> m, e |-> e]

\* q + (rem / 2^bits) rounded to an integer, ties to even.
RoundEven(q, rem, half) ==
    IF rem > half \/ (rem = half /\ q % 2 = 1) THEN q + 1 ELSE q

\* A rounded significand that reached 2^24 is renormalised.
F32Norm(neg, q, e) ==
    IF q = Pow2(24) THEN F32Fin(neg, Pow2(23), e + 1) ELSE F32Fin(neg, q, e)

\* `x as f32` of a u32: exact below 2^24, rounded above.
U32AsF32(v) ==
    IF v[1] = 0 /\ v[2] = 0 THEN F32Zero(FALSE)
    ELSE LET n == IF v[1] = 0 THEN BitLen(v[2]) ELSE 16 + BitLen(v[1])
         IN  IF n <= 24
             THEN F32Fin(FALSE, (v[1] * Limb + v[2]) * Pow2(24 - n), n - 24)
             ELSE LET sh  == n - 24
                      q   == v[1] * Pow2(16 - sh) + (v[2] \div Pow2(sh))
                      rem == v[2] % Pow2(sh)
                  IN  F32Norm(FALSE, RoundEven(q, rem, Pow2(sh - 1)), sh)

\* a * b on f32.  The 48-bit product of the significands is formed in
\* 12-bit digits d3 d2 d1 d0 and its top 24 bits are rounded.
F32Mul(a, b) ==
    LET neg == (a.neg # b.neg)
    IN  IF a.k = "nan" \/ b.k = "nan" THEN F32NaN
        ELSE IF a.k = "inf" \/ b.k = "inf"
        THEN IF a.k = "zero" \/ b.k = "zero" THEN F32NaN ELSE F32Inf(neg)
        ELSE IF a.k = "zero" \/ b.k = "zero" THEN F32Zero(neg)
        ELSE LET D   == Pow2(12)
                 a1  == a.m \div D
                 a0  == a.m % D
                 b1  == b.m \div D
                 b0  == b.m % D
                 low == a0 * b0
                 c1  == (low \div D) + a1 * b0 + a0 * b1
                 c2  == (c1 \div D) + a1 * b1
                 d0  == low % D
                 d1  == c1 % D
                 d2  == c2 % D
                 d3  == c2 \div D
             IN  IF d3 >= D \div 2
                 THEN F32Norm(neg,
                              RoundEven(d3 * D + d2, d1 * D + d0, Pow2(23)),
                              a.e + b.e + 24)
                 ELSE F32Norm(neg,
                              RoundEven((d3 * D + d2) * 2 + (d1 \div (D \div 2)),
                                        (d1 % (D \div 2)) * D + d0, Pow2(22)),
                              a.e + b.e + 23)

\* `x as u32` of an f32: truncation toward zero, saturating; NaN gives 0.
F32AsU32(x) ==
    IF x.k = "nan" \/ x.k = "zero" \/ x.neg THEN U32(0)
    ELSE IF x.k = "inf" \/ x.e >= 9 THEN U32_MAX
    ELSE IF x.e >= 0
         THEN <<x.m \div Pow2(16 - x.e), (x.m % Pow2(16 - x.e)) * Pow2(x.e)>>
    ELSE IF x.e <= -24 THEN U32(0)
    ELSE U32(x.m \div Pow2(-x.e))

(***************************************************************************)
(* Strings: sequences of one-character strings.                            *)
(***************************************************************************)
Digits == <<"0", "1", "2", "3", "4", "5", "6", "7", "8", "9">>

\* char::is_whitespace, on the characters the inputs use.
WhiteSpace == {" ", "\t", "\n"}

Upper == <<"A", "B", "C", "D", "E", "F", "G", "H", "I", "J", "K", "L", "M",
           "N", "O", "P", "Q", "R", "S", "T", "U", "V", "W", "X", "Y", "Z">>

Lower == <<"a", "b", "c", "d", "e", "f", "g", "h", "i", "j", "k", "l", "m",
           "n", "o", "p", "q", "r", "s", "t", "u", "v", "w", "x", "y", "z">>

LowerChar(c) ==
    IF \E i \in 1..Len(Upper) : Upper[i] = c
    THEN Lower[CHOOSE i \in 1..Len(Upper) : Upper[i] = c]
    ELSE c

\* str::to_lowercase
ToLowercase(str) == [i \in 1..Len(str) |-> LowerChar(str[i])]

RECURSIVE TrimStart(_)
TrimStart(str) ==
    IF str # <<>> /\ str[1] \in WhiteSpace THEN TrimStart(Tail(str)) ELSE str

RECURSIVE TrimEnd(_)
TrimEnd(str) ==
    IF str # <<>> /\ str[Len(str)] \in WhiteSpace
    THEN TrimEnd(SubSeq(str, 1, Len(str) - 1))
    ELSE str

\* str::trim
Trim(str) == TrimEnd(TrimStart(str))

\* str::trim_end_matches(c): every trailing c is removed.
RECURSIVE TrimEndMatches(_, _)
TrimEndMatches(str, c) ==
    IF str # <<>> /\ str[Len(str)] = c
    THEN TrimEndMatches(SubSeq(str, 1, Len(str) - 1), c)
    ELSE str

\* str::starts_with and str::ends_with
StartsWith(str, pat) ==
    Len(str) >= Len(pat) /\ SubSeq(str, 1, Len(pat)) = pat

EndsWith(str, pat) ==
    Len(str) >= Len(pat) /\ SubSeq(str, Len(str) - Len(pat) + 1, Len(str)) = pat

\* str::replace(pat, ""): every non-overlapping match, left to right.
RECURSIVE Remove(_, _)
Remove(str, pat) ==
    IF Len(str) < Len(pat) THEN str
    ELSE IF StartsWith(str, pat)
         THEN Remove(SubSeq(str, Len(pat) + 1, Len(str)), pat)
    ELSE <<str[1]>> \o Remove(Tail(str), pat)

\* str::split(c).collect(): the pieces between the separators, empty ones kept.
RECURSIVE Split(_, _)
Split(str, c) ==
    IF \E i \in 1..Len(str) : str[i] = c
    THEN LET i == CHOOSE j \in 1..Len(str) :
                      str[j] = c /\ \A k \in 1..(j - 1) : str[k] # c
         IN  <<SubSeq(str, 1, i - 1)>> \o Split(SubSeq(str, i + 1, Len(str)), c)
    ELSE <<str>>

DigitValue(c) == (CHOOSE i \in 1..10 : Digits[i] = c) - 1

IsDigit(c) == \E i \in 1..10 : Digits[i] = c

\* acc * 10 + d with checked_mul and checked_add: ok is FALSE on overflow.
MulAdd10(acc, d) ==
    LET lo == acc[2] * 10 + d
        hi == acc[1] * 10 + (lo \div Limb)
    IN  [ok |-> hi < Limb, v |-> <<hi % Limb, lo % Limb>>]

RECURSIVE ParseDigits(_, _)
ParseDigits(str, acc) ==
    IF str = <<>> THEN [ok |-> TRUE, v |-> acc]
    ELSE IF ~IsDigit(str[1]) THEN [ok |-> FALSE, v |-> U32(0)]
    ELSE LET r == MulAdd10(acc, DigitValue(str[1]))
         IN  IF r.ok THEN ParseDigits(Tail(str), r.v)
             ELSE [ok |-> FALSE, v |-> U32(0)]

\* str::parse::<u32>(): decimal digits after an optional '+'; the empty
\* string, a lone sign, a '-', any other character and a value above
\* u32::MAX are errors.
ParseU32(str) ==
    IF str = <<>> \/ str = <<"+">> \/ str = <<"-">>
    THEN [ok |-> FALSE, v |-> U32(0)]
    ELSE IF str[1] = "+" THEN ParseDigits(Tail(str), U32(0))
    ELSE ParseDigits(str, U32(0))

\* v / 10 and v % 10 on a u32, by long division on the limbs.
DivMod10(v) ==
    LET r  == v[1] % 10
        lo == r * Limb + v[2]
    IN  [q |-> <<v[1] \div 10, lo \div 10>>, r |-> lo % 10]

\* Display for u32: decimal, no sign, no leading zero.
RECURSIVE U32ToString(_)
U32ToString(v) ==
    LET d == DivMod10(v)
    IN  IF d.q = U32(0) THEN <<Digits[d.r + 1]>>
        ELSE U32ToString(d.q) \o <<Digits[d.r + 1]>>

(***************************************************************************)
(* HSL: construction and formatting.                                       *)
(***************************************************************************)
HueMax == 360

PercentMax == 100

Ok(hv, sv, lv) == [tag |-> "Ok", h |-> hv, s |-> sv, l |-> lv]

Err(kind) == [tag |-> kind, h |-> U32(0), s |-> U32(0), l |-> U32(0)]

\* The same constructor with the half-open ranges 0..360 and 0..100, the
\* slip of writing .. for ..= .
TryFromTupleExclusive(value) ==
    IF \/ ~(Contains(HueMax, value[1]) /\ value[1] # U32(HueMax))
       \/ ~(Contains(PercentMax, value[2]) /\ value[2] # U32(PercentMax))
       \/ ~(Contains(PercentMax, value[3]) /\ value[3] # U32(PercentMax))
    THEN Err("ValueErr")
    ELSE Ok(value[1], value[2], value[3])

\* impl TryFrom<(u32, u32, u32)> for HSL
TryFromTuple(value) ==
    IF \/ ~Contains(HueMax, value[1])
       \/ ~Contains(PercentMax, value[2])
       \/ ~Contains(PercentMax, value[3])
    THEN Err("ValueErr")
    ELSE Ok(value[1], value[2], value[3])

HslPrefix == <<"h", "s", "l", "(">>

\* The closure of the field iterator: trim, trim_end_matches('%'), parse.
ParseField(fld) == ParseU32(TrimEndMatches(Trim(fld), "%"))

\* (val[0], val[1], val[2]).try_into(): a result that only corrects the
\* values instead of validating them is the slip IntoHslClamped makes.
IntoHslClamped(val) ==
    Ok(U32Min(val[1].v, U32(HueMax)), U32Min(val[2].v, U32(PercentMax)),
       U32Min(val[3].v, U32(PercentMax)))

IntoHsl(val) == TryFromTuple(<<val[1].v, val[2].v, val[3].v>>)

\* impl TryFrom<&str> for HSL
TryFromStr(hsl_str) ==
    LET color == ToLowercase(Trim(hsl_str))
    IN  IF StartsWith(color, HslPrefix) /\ EndsWith(color, <<")">>)
        THEN LET inner == Remove(Remove(color, HslPrefix), <<")">>)
                 tmp   == Split(inner, ",")
             IN  IF Len(tmp) = 3
                 THEN LET parsed == [i \in 1..3 |-> ParseField(tmp[i])]
                          val    == SelectSeq(parsed, LAMBDA r : r.ok)
                      IN  IF Len(val) = 3
                          THEN IntoHsl(val)
                          ELSE Err("FormatErr")
                 ELSE Err("FormatErr")
        ELSE Err("FormatErr")

\* Display with lightness and saturation in each other's place.
FmtSwapped(hv, sv, lv) ==
    HslPrefix \o U32ToString(hv) \o <<",">> \o U32ToString(lv) \o <<"%", ",">>
        \o U32ToString(sv) \o <<"%", ")">>

\* impl Display for HSL: "hsl({},{}%,{}%)"
Fmt(hv, sv, lv) ==
    HslPrefix \o U32ToString(hv) \o <<",">> \o U32ToString(sv) \o <<"%", ",">>
        \o U32ToString(lv) \o <<"%", ")">>

(***************************************************************************)
(* HSL: the values the mutators assign.  A result is [panic, v]: the call  *)
(* panics (an arithmetic overflow in a build with overflow checks, the     *)
(* default of a debug build) or returns having assigned v.                 *)
(***************************************************************************)
Returns(v) == [panic |-> FALSE, v |-> v]

Panics == [panic |-> TRUE, v |-> U32(0)]

\* hue.min(360), saturation.min(100), lightness.min(100)
SetHueValue(hue) == U32Min(hue, U32(HueMax))

\* set_saturation with the limit of set_hue.
SetSaturationAsHue(saturation) == U32Min(saturation, U32(HueMax))

SetSaturationValue(saturation) == U32Min(saturation, U32(PercentMax))

SetLightnessValue(lightness) == U32Min(lightness, U32(PercentMax))

\* (self.l as f32 * ratio) as u32
Amount(lv, ratio) == F32AsU32(F32Mul(U32AsF32(lv), ratio))

\* The clamp without its .min(100).
ClampLower(v) == U32Max(v, U32(0))

\* .max(0).min(100)
Clamp(v) == U32Min(U32Max(v, U32(0)), U32(PercentMax))

\* darken taking the ratio of the full scale, 100, not of the lightness.
DarkenValueOfScale(lv, ratio, checks) ==
    LET x == Amount(U32(PercentMax), ratio)
    IN  IF SubOverflows(lv, x)
        THEN IF checks THEN Panics ELSE Returns(Clamp(WrappingSub(lv, x)))
        ELSE Returns(Clamp(WrappingSub(lv, x)))

\* (self.l - (self.l as f32 * ratio) as u32).max(0).min(100)
DarkenValue(lv, ratio, checks) ==
    LET x == Amount(lv, ratio)
    IN  IF SubOverflows(lv, x)
        THEN IF checks THEN Panics ELSE Returns(Clamp(WrappingSub(lv, x)))
        ELSE Returns(Clamp(WrappingSub(lv, x)))

\* (self.l + (self.l as f32 * ratio) as u32).max(0).min(100)
LightenValue(lv, ratio, checks) ==
    LET x == Amount(lv, ratio)
    IN  IF AddOverflows(lv, x)
        THEN IF checks THEN Panics ELSE Returns(Clamp(WrappingAdd(lv, x)))
        ELSE Returns(Clamp(WrappingAdd(lv, x)))

\* The hue normalised from the remainder: if h < 0 { 360 + h } else { h }
Normalise(r) == IF r < 0 THEN HueMax + r ELSE r

\* let mut h = (self.h as i32 + degrees) % 360; ...; self.h = h as u32
RotateValue(hv, degrees, checks) ==
    LET a == U32AsI32(hv)
    IN  IF I32AddOverflows(a, degrees) /\ checks THEN Panics
        ELSE Returns(I32AsU32(Normalise(I32Rem(I32WrappingAdd(a, degrees), HueMax))))

(***************************************************************************)
(* The inputs of the model.                                                *)
(***************************************************************************)
\* The most mutator calls made on one instance.
MaxCalls == 2

\* Tuple arguments, channel by channel: in range, on and just beyond the
\* limits, and u32::MAX.
HueArgs == {U32(0), U32(120), U32(262), U32(360), U32(361), U32_MAX}

SaturationArgs == {U32(85), U32(100), U32(101), U32_MAX}

LightnessArgs == {U32(50), U32(79), U32(101), U32_MAX}

TupleInputs == HueArgs \X SaturationArgs \X LightnessArgs

\* Numeric fields of strings in the canonical form "hsl(a,b%,c%)".
HueFields ==
    { <<"0">>,
      <<"1", "2", "0">>,
      <<"2", "6", "2">>,
      <<"3", "6", "0">>,
      <<"3", "6", "1">>,
      <<"0", "0", "7">>,
      <<"4", "2", "9", "4", "9", "6", "7", "2", "9", "5">>,
      <<"4", "2", "9", "4", "9", "6", "7", "2", "9", "6">> }

SaturationFields == { <<"8", "5">>,
                    <<"1", "0", "0">>,
                    <<"1", "0", "1">> }

LightnessFields == { <<"5", "0">>,
                   <<"7", "9">>,
                   <<"1", "0", "1">> }

Canonical(a, b, c) ==
    HslPrefix \o a \o <<",">> \o b \o <<"%", ",">> \o c \o <<"%", ")">>

CanonicalInputs ==
    {Canonical(a, b, c) :
        a \in HueFields, b \in SaturationFields, c \in LightnessFields}

\* "hsl(262,85%,79%)" with one part replaced: the prefix, the suffix, one
\* of the fields, or the number of fields.
Prefixes ==
    { <<"H", "S", "L", "(">>,
      <<" ", "h", "s", "l", "(">>,
      <<"\t", "h", "s", "l", "(">>,
      <<"h", "s", "v", "(">>,
      <<>>,
      <<"h", "s", "l">>,
      <<"h", "s", "l", "(", "h", "s", "l", "(">>,
      <<"h", "s", "l", "(", " ">> }

Suffixes == { <<>>,
              <<")", ")">>,
              <<")", " ">>,
              <<" ", ")">>,
              <<")", "x">>,
              <<")", "\n">> }

OddHues ==
    { <<>>,
      <<"x">>,
      <<"-", "1">>,
      <<"+", "5">>,
      <<" ", "2", "6", "2", " ">>,
      <<"2", "6", "2", "%">>,
      <<"2", " ", "6", "2">>,
      <<"2", "6", ".", "5">>,
      <<"0", "x", "1", "0">>,
      <<"h", "s", "l", "(", "2", "6", "2">> }

OddSaturations == { <<"8", "5">>,
                      <<"8", "5", "%", "%">>,
                      <<"8", "5", " ", "%">>,
                      <<"%", "8", "5">>,
                      <<" ", "8", "5", "%", " ">>,
                      <<"8", ")", "5", "%">> }

OddLightnesses == { <<"7", "9">>,
                      <<"7", "9", ")">>,
                      <<"7", "9", "%", "%">>,
                      <<"+", "7", "9", "%">>,
                      <<"-", "0", "%">> }

Body(a, b, c) == a \o <<",">> \o b \o <<",">> \o c

OtherCounts ==
    { HslPrefix \o <<"1", "0", ",", "2", "0", "%">> \o <<")">>,
      HslPrefix \o <<"2", "6", "2", ",", "8", "5", "%", ",", "7", "9", "%", ",", "1">> \o <<")">>,
      HslPrefix \o <<"2", "6", "2", ",", "8", "5", "%", ",", "7", "9", "%", ",">> \o <<")">>,
      HslPrefix \o <<"2", "6", "2">> \o <<")">>,
      HslPrefix \o <<")">>,
      HslPrefix \o <<",", ",">> \o <<")">>,
      <<"h", "s", "l", "(", "1", "2", "0", ",", " ", "1", "0", "0", "%", ",", " ", "5", "0", "%", ")">>,
      <<"h", "s", "l", "(", "3", "6", "1", ",", "0", "%", ",", "0", "%", ")">>,
      <<>> }

VariedInputs ==
    LET hf == <<"2", "6", "2">>
        sf == <<"8", "5", "%">>
        lf == <<"7", "9", "%">>
    IN  {p \o Body(hf, sf, lf) \o <<")">> : p \in Prefixes}
          \cup {HslPrefix \o Body(hf, sf, lf) \o x : x \in Suffixes}
          \cup {HslPrefix \o Body(a, sf, lf) \o <<")">> : a \in OddHues}
          \cup {HslPrefix \o Body(hf, b, lf) \o <<")">> : b \in OddSaturations}
          \cup {HslPrefix \o Body(hf, sf, c) \o <<")">> : c \in OddLightnesses}
          \cup OtherCounts

StrInputs == CanonicalInputs \cup VariedInputs

\* Setter arguments.
SetHueArgs == {U32(0), U32(200), U32(360), U32(361), <<1, 0>>, U32_MAX}

SetPercentArgs == {U32(0), U32(50), U32(100), U32(101), <<1, 0>>, U32_MAX}

\* Ratios: f32 values, each the f32 nearest to the decimal named.
Ratio_0_2 == [k |-> "fin", neg |-> FALSE, m |-> 13421773, e |-> -26]

Ratio_0_5 == [k |-> "fin", neg |-> FALSE, m |-> 8388608, e |-> -24]

Ratio_0_53 == [k |-> "fin", neg |-> FALSE, m |-> 8891924, e |-> -24]

Ratio_0_9 == [k |-> "fin", neg |-> FALSE, m |-> 15099494, e |-> -24]

\* The greatest f32 below 1.
Ratio_below_1 == [k |-> "fin", neg |-> FALSE, m |-> 16777215, e |-> -24]

Ratio_1 == [k |-> "fin", neg |-> FALSE, m |-> 8388608, e |-> -23]

Ratio_1_5 == [k |-> "fin", neg |-> FALSE, m |-> 12582912, e |-> -23]

Ratio_2 == [k |-> "fin", neg |-> FALSE, m |-> 8388608, e |-> -22]

Ratio_1e10 == [k |-> "fin", neg |-> FALSE, m |-> 9765625, e |-> 10]

Ratio_neg_0_5 == [k |-> "fin", neg |-> TRUE, m |-> 8388608, e |-> -24]

\* Ratios in [0, 1].
UnitRatios ==
    {F32Zero(FALSE), Ratio_0_2, Ratio_0_5, Ratio_0_53, Ratio_0_9,
     Ratio_below_1, Ratio_1}

Ratios ==
    UnitRatios \cup {Ratio_1_5, Ratio_2, Ratio_1e10, Ratio_neg_0_5,
                     F32Inf(FALSE), F32Inf(TRUE), F32NaN}

Degrees == {0, 60, -150, 360, -1, I32_MAX, I32_MIN}

(***************************************************************************)
(* The state machine: one HSL value and the calls made on it.              *)
(*   status          "new" before construction; "Ok" while an instance     *)
(*                   exists; "FormatErr" or "ValueErr" after a failed      *)
(*                   construction (no instance); "Panic" after a call that *)
(*                   did not return                                        *)
(*   h, s, l         the fields of the instance                            *)
(*   overflow_checks whether the build checks arithmetic overflow          *)
(*   op, arg, old    the last call, its argument and the fields before it  *)
(*   calls           the mutator calls made so far                         *)
(*   rendered        the string to_string gave for the instance as it is,  *)
(*                   or <<>>                                               *)
(***************************************************************************)
VARIABLES status, h, s, l, overflow_checks, op, arg, old, calls, rendered

vars == <<status, h, s, l, overflow_checks, op, arg, old, calls, rendered>>

Fields == <<h, s, l>>

Init ==
    /\ status = "new"
    /\ h = U32(0)
    /\ s = U32(0)
    /\ l = U32(0)
    /\ overflow_checks \in BOOLEAN
    /\ op = "none"
    /\ arg = <<>>
    /\ old = <<U32(0), U32(0), U32(0)>>
    /\ calls = 0
    /\ rendered = <<>>

\* A construction returned r: Ok(instance) or an error and no instance.
Construct(name, input, r) ==
    /\ status' = r.tag
    /\ h' = r.h
    /\ s' = r.s
    /\ l' = r.l
    /\ op' = name
    /\ arg' = input
    /\ old' = Fields
    /\ UNCHANGED <<overflow_checks, calls>>

\* HSL::try_from((h, s, l))
try_from_tuple(value) ==
    /\ status = "new"
    /\ Construct("try_from_tuple", value, TryFromTuple(value))
    /\ rendered' = <<>>

\* HSL::try_from(hsl_str)
try_from_str(hsl_str) ==
    /\ status = "new"
    /\ Construct("try_from_str", hsl_str, TryFromStr(hsl_str))
    /\ rendered' = <<>>

\* self.to_string(), through Display
to_string ==
    /\ status = "Ok"
    /\ rendered = <<>>
    /\ rendered' = Fmt(h, s, l)
    /\ UNCHANGED <<status, h, s, l, overflow_checks, op, arg, old, calls>>

\* HSL::try_from(&self.to_string()): the rendered string parsed again.
reparse ==
    /\ status = "Ok"
    /\ rendered # <<>>
    /\ op # "reparse"
    /\ Construct("reparse", rendered, TryFromStr(rendered))
    /\ UNCHANGED rendered

\* A mutator call that returned, having assigned the fields hv, sv, lv.
Assign(name, a, hv, sv, lv) ==
    /\ status' = "Ok"
    /\ h' = hv
    /\ s' = sv
    /\ l' = lv
    /\ op' = name
    /\ arg' = a
    /\ old' = Fields
    /\ calls' = calls + 1
    /\ rendered' = <<>>
    /\ UNCHANGED overflow_checks

\* A mutator call that panicked before its assignment.
Panic(name, a) ==
    /\ status' = "Panic"
    /\ op' = name
    /\ arg' = a
    /\ old' = Fields
    /\ calls' = calls + 1
    /\ rendered' = <<>>
    /\ UNCHANGED <<h, s, l, overflow_checks>>

Callable == status = "Ok" /\ calls < MaxCalls

set_hue(hue) ==
    /\ Callable
    /\ Assign("set_hue", hue, SetHueValue(hue), s, l)

set_saturation(saturation) ==
    /\ Callable
    /\ Assign("set_saturation", saturation, h, SetSaturationValue(saturation), l)

set_lightness(lightness) ==
    /\ Callable
    /\ Assign("set_lightness", lightness, h, s, SetLightnessValue(lightness))

darken(ratio) ==
    /\ Callable
    /\ LET r == DarkenValue(l, ratio, overflow_checks)
       IN  IF r.panic THEN Panic("darken", ratio)
           ELSE Assign("darken", ratio, h, s, r.v)

lighten(ratio) ==
    /\ Callable
    /\ LET r == LightenValue(l, ratio, overflow_checks)
       IN  IF r.panic THEN Panic("lighten", ratio)
           ELSE Assign("lighten", ratio, h, s, r.v)

rotate(degrees) ==
    /\ Callable
    /\ LET r == RotateValue(h, degrees, overflow_checks)
       IN  IF r.panic THEN Panic("rotate", degrees)
           ELSE Assign("rotate", degrees, r.v, s, l)

Next ==
    \/ \E value \in TupleInputs : try_from_tuple(value)
    \/ \E hsl_str \in StrInputs : try_from_str(hsl_str)
    \/ \E hue \in SetHueArgs : set_hue(hue)
    \/ \E saturation \in SetPercentArgs : set_saturation(saturation)
    \/ \E lightness \in SetPercentArgs : set_lightness(lightness)
    \/ \E ratio \in Ratios : darken(ratio)
    \/ \E ratio \in Ratios : lighten(ratio)
    \/ \E degrees \in Degrees : rotate(degrees)

\* Construction, then up to MaxCalls mutator calls.
Spec == Init /\ [][Next]_vars

(***************************************************************************)
(* Specifications that start from the state a successful tuple             *)
(* construction leaves, for a dense set of values of one field.            *)
(***************************************************************************)
Constructed(hs, ss, ls) ==
    /\ status = "Ok"
    /\ h \in hs
    /\ s \in ss
    /\ l \in ls
    /\ overflow_checks \in BOOLEAN
    /\ op = "try_from_tuple"
    /\ arg = <<h, s, l>>
    /\ old = <<U32(0), U32(0), U32(0)>>
    /\ calls = 0
    /\ rendered = <<>>

AllHues == {U32(n) : n \in 0..HueMax}

AllPercents == {U32(n) : n \in 0..PercentMax}

SomePercents == {U32(0), U32(7), U32(85), U32(99), U32(100)}

\* Every hue, formatted and parsed again.
InitRoundTrip == Constructed(AllHues, SomePercents, SomePercents)

NextRoundTrip == to_string \/ reparse

SpecRoundTrip == InitRoundTrip /\ [][NextRoundTrip]_vars

\* Every lightness, darkened and lightened by every ratio, and rendered.
InitLightness == Constructed({U32(120)}, {U32(100)}, AllPercents)

NextLightness ==
    \/ \E ratio \in Ratios : darken(ratio)
    \/ \E ratio \in Ratios : lighten(ratio)
    \/ to_string

SpecLightness == InitLightness /\ [][NextLightness]_vars

\* Every hue, rotated by every number of degrees.
InitHue == Constructed(AllHues, {U32(100)}, {U32(50)})

NextHue == \E degrees \in Degrees : rotate(degrees)

SpecHue == InitHue /\ [][NextHue]_vars

(***************************************************************************)
(* The claims.  Numbers are written out here as the claims give them, and  *)
(* a field is read as the plain number it holds when it fits 16 bits.      *)
(***************************************************************************)
\* The u32 v is at most n (n < 2^16).
InRange(v, n) == v[1] = 0 /\ v[2] <= n

Triple(a, b, c) == <<U32(a), U32(b), U32(c)>>

\* C1: from any successfully constructed HSL, after any sequence of set_hue,
\* set_saturation, set_lightness, darken, lighten and rotate calls that
\* return, 0 <= h <= 360, 0 <= s <= 100 and 0 <= l <= 100.  A call that
\* panics assigns nothing, so the fields stay in range there too.
C1_RangeInvariant ==
    status \in {"Ok", "Panic"} =>
        InRange(h, 360) /\ InRange(s, 100) /\ InRange(l, 100)

\* A second call, darken, whose subtraction wrapped around in a build
\* without overflow checks and whose result the clamp brought back to 100.
C1_Witness ==
    /\ status = "Ok"
    /\ calls >= 2
    /\ op = "darken"
    /\ SubOverflows(old[3], Amount(old[3], arg))
    /\ l = U32(100)

\* C2: HSL::try_from((h, s, l)) is Ok with exactly these fields if and only
\* if h <= 360, s <= 100 and l <= 100; any other tuple is a value error and
\* no instance.
C2_TupleConstruction ==
    op = "try_from_tuple" =>
        IF InRange(arg[1], 360) /\ InRange(arg[2], 100) /\ InRange(arg[3], 100)
        THEN status = "Ok" /\ Fields = arg
        ELSE status = "ValueErr" /\ Fields = Triple(0, 0, 0)

\* The tuple (360, 100, 101): only the lightness is out of range, by one.
C2_Witness ==
    /\ op = "try_from_tuple"
    /\ arg = Triple(360, 100, 101)
    /\ status = "ValueErr"

\* The last character c of str removed, once.
StripOne(str, c) ==
    IF str # <<>> /\ str[Len(str)] = c THEN SubSeq(str, 1, Len(str) - 1)
    ELSE str

\* The input is outside the grammar as C3 words it: no "hsl(" prefix or no
\* trailing ")" after trimming and lowercasing, or between the two not
\* exactly 3 comma-separated fields, or a field that, trimmed and with a
\* trailing '%' stripped, is not an unsigned integer.
Malformed(str) ==
    LET color == ToLowercase(Trim(str))
    IN  IF ~StartsWith(color, HslPrefix) \/ ~EndsWith(color, <<")">>)
        THEN TRUE
        ELSE LET flds == Split(SubSeq(color, 5, Len(color) - 1), ",")
             IN  \/ Len(flds) # 3
                 \/ \E i \in 1..3 : ~ParseU32(StripOne(Trim(flds[i]), "%")).ok

\* C3: HSL::try_from(&str) fails with a format error whenever the input is
\* outside the grammar (prefix, suffix, field count, non-numeric field).
C3_MalformedIsFormatErr ==
    (op = "try_from_str" /\ Malformed(arg)) => status = "FormatErr"

\* C4: for a string "hsl(a,b%,c%)" whose fields parse as the unsigned
\* integers a, b, c, HSL::try_from(string) is what HSL::try_from((a, b, c))
\* is: Ok with these fields in range, a value error out of range;
\* "hsl(361,0%,0%)" is a value error and "hsl(262,85%,79%)" succeeds.
C4_StringSharesRangeCheck ==
    op = "try_from_str" =>
        /\ \A a \in HueFields, b \in SaturationFields, c \in LightnessFields :
              (/\ arg = Canonical(a, b, c)
               /\ ParseU32(a).ok /\ ParseU32(b).ok /\ ParseU32(c).ok)
              => LET r == TryFromTuple(<<ParseU32(a).v, ParseU32(b).v,
                                         ParseU32(c).v>>)
                 IN  status = r.tag /\ Fields = <<r.h, r.s, r.l>>
        /\ arg = <<"h", "s", "l", "(", "3", "6", "1", ",", "0", "%", ",", "0", "%", ")">>
              => status = "ValueErr"
        /\ arg = <<"h", "s", "l", "(", "2", "6", "2", ",", "8", "5", "%", ",", "7", "9", "%", ")">>
              => status = "Ok" /\ Fields = Triple(262, 85, 79)

\* "hsl(361,100%,50%)": three numeric fields, the hue out of range by one.
C4_Witness ==
    /\ op = "try_from_str"
    /\ arg = <<"h", "s", "l", "(", "3", "6", "1", ",", "1", "0", "0", "%", ",", "5", "0", "%", ")">>
    /\ status = "ValueErr"

\* The decimal digits of a number below 1000.
Decimal(n) ==
    IF n < 10 THEN <<Digits[n + 1]>>
    ELSE IF n < 100 THEN <<Digits[(n \div 10) + 1], Digits[(n % 10) + 1]>>
    ELSE <<Digits[(n \div 100) + 1], Digits[((n \div 10) % 10) + 1],
           Digits[(n % 10) + 1]>>

\* C5: a valid HSL renders as "hsl(h,s%,l%)", and HSL::try_from of that
\* string is Ok with the same three fields.
C5_FormatParseRoundTrip ==
    /\ rendered # <<>> =>
          rendered = Canonical(Decimal(h[2]), Decimal(s[2]), Decimal(l[2]))
    /\ op = "reparse" =>
          arg = rendered /\ status = "Ok" /\ Fields = old

\* hsl(360,100%,0%), the limits of the three ranges, parsed back.
C5_Witness ==
    /\ op = "reparse"
    /\ status = "Ok"
    /\ arg = <<"h", "s", "l", "(", "3", "6", "0", ",", "1", "0", "0", "%", ",", "0", "%", ")">>
    /\ Fields = Triple(360, 100, 0)

\* The ratio is greater than 1 (a finite f32 or +infinity).
GreaterThanOne(r) ==
    /\ ~r.neg
    /\ \/ r.k = "inf"
       \/ r.k = "fin" /\ (r.e > -23 \/ (r.e = -23 /\ r.m > 2^23))

\* C6: darken and lighten never fail, whatever the ratio, and clamp the
\* lightness into [0, 100]; darken with a ratio above 1 on a non-zero
\* lightness yields 0.  Stated for the finite ratios.
C6_MutatorsNeverFail ==
    /\ (op \in {"darken", "lighten"} /\ arg.k \in {"fin", "zero"})
          => status = "Ok"
    /\ (op = "darken" /\ arg.k = "fin" /\ GreaterThanOne(arg) /\ old[3] # U32(0))
          => l = U32(0)

\* The ratio is in [0, 1].
InUnit(r) ==
    \/ r.k = "zero"
    \/ r.k = "fin" /\ ~r.neg /\ (r.e < -23 \/ (r.e = -23 /\ r.m = 2^23))

\* trunc(n * r) for 0 <= n <= 100 and r in [0, 1]: the product, an f32, is
\* the exact n * m * 2^e rounded to 24 bits (ties to even); its fractional
\* part is dropped.
TruncProduct(n, r) ==
    IF n = 0 \/ r.k = "zero" THEN 0
    ELSE LET p    == n * r.m
             k    == BitLen(p) - 24
             q0   == p \div 2^k
             rem  == p % 2^k
             q    == IF 2 * rem > 2^k \/ (2 * rem = 2^k /\ q0 % 2 = 1)
                     THEN q0 + 1 ELSE q0
             frac == -(r.e + k)
         IN  IF frac >= 31 THEN 0 ELSE q \div 2^frac

Least(a, b) == IF a <= b THEN a ELSE b

\* C7: for a ratio in [0, 1], darken sets the lightness to
\* l - trunc(l * ratio) and lighten to min(100, l + trunc(l * ratio)), the
\* product being the f32 product; hue and saturation stay.  From
\* hsl(120,100%,50%), darken(0.2) gives 40, rendered "hsl(120,100%,40%)",
\* and lighten(0.2) gives 60, rendered "hsl(120,100%,60%)".
C7_UnitRatio ==
    /\ (op = "darken" /\ InUnit(arg)) =>
          /\ status = "Ok"
          /\ l = U32(old[3][2] - TruncProduct(old[3][2], arg))
          /\ h = old[1] /\ s = old[2]
    /\ (op = "lighten" /\ InUnit(arg)) =>
          /\ status = "Ok"
          /\ l = U32(Least(100, old[3][2] + TruncProduct(old[3][2], arg)))
          /\ h = old[1] /\ s = old[2]
    /\ (op = "darken" /\ arg = Ratio_0_2 /\ old = Triple(120, 100, 50)) =>
          /\ l = U32(40)
          /\ rendered # <<>> => rendered = <<"h", "s", "l", "(", "1", "2", "0", ",", "1", "0", "0", "%", ",", "4", "0", "%", ")">>
    /\ (op = "lighten" /\ arg = Ratio_0_2 /\ old = Triple(120, 100, 50)) =>
          /\ l = U32(60)
          /\ rendered # <<>> => rendered = <<"h", "s", "l", "(", "1", "2", "0", ",", "1", "0", "0", "%", ",", "6", "0", "%", ")">>

\* The doc test of darken: hsl(120,100%,50%) darkened by 0.2 and rendered.
C7_Witness ==
    /\ op = "darken"
    /\ arg = Ratio_0_2
    /\ old = Triple(120, 100, 50)
    /\ rendered = <<"h", "s", "l", "(", "1", "2", "0", ",", "1", "0", "0", "%", ",", "4", "0", "%", ")">>

\* C8: for every i32 degrees, rotate(degrees) returns with the hue
\* (h + degrees) mod 360, between 0 and 359.
C8_RotateEveryDegrees ==
    op = "rotate" =>
        /\ status = "Ok"
        /\ h = U32(((old[1][2] % 360) + (arg % 360)) % 360)
        /\ InRange(h, 359)

\* min(x, n) of the u32 x and n < 2^16.
AtMost(x, n) == IF InRange(x, n) THEN x ELSE U32(n)

\* C9: set_hue(x) sets the hue to min(x, 360), set_saturation(x) the
\* saturation to min(x, 100), set_lightness(x) the lightness to min(x, 100);
\* each returns, on the same instance, and leaves the other two fields.
\* "hsl(262,85%,79%)" with set_lightness(50) renders "hsl(262,85%,50%)".
C9_SettersClamp ==
    /\ op = "set_hue" =>
          status = "Ok" /\ Fields = <<AtMost(arg, 360), old[2], old[3]>>
    /\ op = "set_saturation" =>
          status = "Ok" /\ Fields = <<old[1], AtMost(arg, 100), old[3]>>
    /\ op = "set_lightness" =>
          status = "Ok" /\ Fields = <<old[1], old[2], AtMost(arg, 100)>>
    /\ (op = "set_lightness" /\ arg = U32(50) /\ old = Triple(262, 85, 79)) =>
          Fmt(h, s, l) = <<"h", "s", "l", "(", "2", "6", "2", ",", "8", "5", "%", ",", "5", "0", "%", ")">>

\* A chained second call, set_saturation(u32::MAX), clamped to 100.
C9_Witness ==
    /\ op = "set_saturation"
    /\ calls = 2
    /\ arg = U32_MAX
    /\ s = U32(100)
    /\ old[2] # U32(100)

\* h0 + a, a + b and h0 + a + b all stay in i32.
NoOverflow(h0, a, b) ==
    /\ ~I32AddOverflows(h0, a)
    /\ ~I32AddOverflows(a, b)
    /\ ~I32AddOverflows(h0 + a, b)

\* C10: when h + a, h + a + b and a + b do not overflow an i32, rotate(a)
\* followed by rotate(b) leaves the hue a single rotate(a + b) leaves, and
\* saturation and lightness as they were.
C10_RotationComposes ==
    [][(/\ op = "rotate" /\ status = "Ok"
        /\ op' = "rotate"
        /\ NoOverflow(old[1][2], arg, arg'))
       => /\ status' = "Ok"
          /\ h' = RotateValue(old[1], arg + arg', overflow_checks).v
          /\ s' = old[2] /\ l' = old[3]]_vars

====
